---- MODULE Spec2Model ----
\* Observer / Observable subscription lifecycle of src/index.ts.
\*
\* The program is single-threaded and synchronous, so every action below is
\* one whole call: constructing an Observable, Observable.subscribe (which
\* constructs the Observer, runs the producer function to its return and
\* assigns the returned cleanup action), one later call of the producer on
\* the Observer it kept, or one unsubscribe() on the subscription handle.
\* Each Observer carries a trace of what was executed on it, in execution
\* order; the properties are stated over the traces.
EXTENDS Integers, Sequences, FiniteSets, TLC

\* ---------------------------------------------------------------- bounds
NumRequests == 2    \* distinct request payloads
MaxLen == 2         \* longest sequence given to Observable.from
MaxSync == 1        \* longest synchronous body of a hand-written producer
MaxCalls == 2       \* calls made on one Observer after subscribe returned
MaxSubs == 2        \* subscribe calls of the program with several subscriptions
MultiCalls == 1     \* calls it makes, on all its Observers, after the subscribes

\* ------------------------------------------------------ program constants
HTTP_STATUS_OK == 200
HTTP_STATUS_INTERNAL_SERVER_ERROR == 500

HttpStatus == {HTTP_STATUS_OK, HTTP_STATUS_INTERNAL_SERVER_ERROR}
Requests == 1..NumRequests
HandlerNames == {"next", "error", "complete"}

\* The value of an unset optional field.
Undefined == "undefined"
\* The variable requests$ before Observable.from / new Observable has run.
NoObservable == [kind |-> "undefined", values |-> <<>>, script |-> <<>>]
\* The function returned by a producer: () => { console.log("unsubscribed") }.
Cleanup == "cleanup"

VARIABLES
    observable,   \* the Observable (NoObservable before construction)
    observers,    \* the Observers, one per subscribe call, in creation order
    trace,        \* per Observer: what was executed on it, in order
    threw,        \* per Observer: TRUE iff a call on it threw
    calls,        \* per Observer: calls made on it after subscribe returned
    budget        \* what the main program does: .subs subscribe calls with
                  \* handler bundles of .handlers, .calls calls on each
                  \* Observer after its subscribe and .total such calls in all

vars == <<observable, observers, trace, threw, calls, budget>>

\* ----------------------------------------------------------------- trace
\* k = "call"    : a caller invoked method op of the Observer with arg
\*     "producer": subscribe invoked the stored producer function
\*     "handler" : the subscriber's handler op was invoked with arg
\*     "set"     : isUnsubscribed = true was executed
\*     "cleanup" : the cleanup action was invoked
\*     "new"     : the Observer was constructed
\*     "assign"  : observer._unsubscribe was assigned
Ev(k, op, arg) == [k |-> k, op |-> op, arg |-> arg]

Log(s, e) == [s EXCEPT !.t = Append(@, e)]

\* --------------------------------------------------------------- Observer
\* s = [o |-> the Observer's fields, t |-> its trace, threw |-> BOOLEAN]

\* new Observer(handlers)
NewObserver(handlers) ==
    [o |-> [handlers |-> handlers,
            isUnsubscribed |-> FALSE,
            _unsubscribe |-> Undefined],
     t |-> <<Ev("new", "Observer", 0)>>,
     threw |-> FALSE]

\* this.handlers.op(arg): calling an absent handler is a TypeError.
InvokeHandler(s, op, arg) ==
    IF op \in s.o.handlers
    THEN Log(s, Ev("handler", op, arg))
    ELSE [s EXCEPT !.threw = TRUE]

\* this._unsubscribe()
InvokeCleanup(s) == Log(s, Ev("cleanup", "_unsubscribe", 0))

\* ObserverUnsubscribe flipping the flag instead of setting it.
ObserverUnsubscribe_toggle(s) ==
    LET s1 == Log([s EXCEPT !.o.isUnsubscribed = ~@], Ev("set", "isUnsubscribed", 0))
    IN  IF s1.o._unsubscribe # Undefined
        THEN InvokeCleanup(s1)
        ELSE s1

\* ObserverUnsubscribe invoking the cleanup action before setting the flag.
ObserverUnsubscribe_cleanupFirst(s) ==
    LET s1 == IF s.o._unsubscribe # Undefined THEN InvokeCleanup(s) ELSE s
    IN  Log([s1 EXCEPT !.o.isUnsubscribed = TRUE], Ev("set", "isUnsubscribed", 0))

\* ObserverUnsubscribe delivering complete to the subscriber of an Observer
\* that was still active.
ObserverUnsubscribe_completing(s) ==
    LET s0 == IF ~s.o.isUnsubscribed /\ "complete" \in s.o.handlers
              THEN InvokeHandler(s, "complete", 0)
              ELSE s
        s1 == Log([s0 EXCEPT !.o.isUnsubscribed = TRUE], Ev("set", "isUnsubscribed", 0))
    IN  IF s1.o._unsubscribe # Undefined
        THEN InvokeCleanup(s1)
        ELSE s1

\* ObserverUnsubscribe running the cleanup action only when the Observer was
\* not unsubscribed before.
ObserverUnsubscribe_once(s) ==
    LET s1 == Log([s EXCEPT !.o.isUnsubscribed = TRUE], Ev("set", "isUnsubscribed", 0))
    IN  IF s1.o._unsubscribe # Undefined /\ ~s.o.isUnsubscribed
        THEN InvokeCleanup(s1)
        ELSE s1

\* Observer.unsubscribe()
ObserverUnsubscribe(s) ==
    LET s1 == Log([s EXCEPT !.o.isUnsubscribed = TRUE], Ev("set", "isUnsubscribed", 0))
    IN  IF s1.o._unsubscribe # Undefined
        THEN InvokeCleanup(s1)
        ELSE s1

\* ObserverNext without the isUnsubscribed gate.
ObserverNext_ungated(s, value) ==
    IF "next" \in s.o.handlers
    THEN InvokeHandler(s, "next", value)
    ELSE s

\* ObserverNext ending the subscription after the delivery, as error does.
ObserverNext_terminating(s, value) ==
    IF "next" \in s.o.handlers /\ ~s.o.isUnsubscribed
    THEN ObserverUnsubscribe(InvokeHandler(s, "next", value))
    ELSE s

\* Observer.next(value)
ObserverNext(s, value) ==
    IF "next" \in s.o.handlers /\ ~s.o.isUnsubscribed
    THEN InvokeHandler(s, "next", value)
    ELSE s

\* ObserverError calling the error handler without testing its presence.
ObserverError_unchecked(s, error) ==
    IF ~s.o.isUnsubscribed
    THEN LET s1 == InvokeHandler(s, "error", error)
         IN  IF s1.threw THEN s1 ELSE ObserverUnsubscribe(s1)
    ELSE s

\* Observer.error(error)
ObserverError(s, error) ==
    IF ~s.o.isUnsubscribed
    THEN LET s1 == IF "error" \in s.o.handlers
                   THEN InvokeHandler(s, "error", error)
                   ELSE s
         IN  IF s1.threw THEN s1 ELSE ObserverUnsubscribe(s1)
    ELSE s

\* ObserverComplete without the isUnsubscribed gate.
ObserverComplete_ungated(s) ==
    LET s1 == IF "complete" \in s.o.handlers
              THEN InvokeHandler(s, "complete", 0)
              ELSE s
    IN  IF s1.threw THEN s1 ELSE ObserverUnsubscribe(s1)

\* Observer.complete()
ObserverComplete(s) ==
    IF ~s.o.isUnsubscribed
    THEN LET s1 == IF "complete" \in s.o.handlers
                   THEN InvokeHandler(s, "complete", 0)
                   ELSE s
         IN  IF s1.threw THEN s1 ELSE ObserverUnsubscribe(s1)
    ELSE s

\* ------------------------------------------------------ calls by a caller
\* A call a producer can make on the Observer it was given.
ProducerCalls ==
    [op : {"next"}, arg : Requests]
        \cup [op : {"error"}, arg : HttpStatus]
        \cup [op : {"complete", "unsubscribe"}, arg : {0}]

\* The caller invokes observer.op(arg); a call after a throw is never made.
ApplyCall(s, c) ==
    IF s.threw THEN s
    ELSE LET s1 == Log(s, Ev("call", c.op, c.arg))
         IN  CASE c.op = "next" -> ObserverNext(s1, c.arg)
               [] c.op = "error" -> ObserverError(s1, c.arg)
               [] c.op = "complete" -> ObserverComplete(s1)
               [] c.op = "unsubscribe" -> ObserverUnsubscribe(s1)

RECURSIVE RunScript(_, _)
RunScript(s, script) ==
    IF script = <<>> THEN s
    ELSE RunScript(ApplyCall(s, Head(script)), Tail(script))

\* ------------------------------------------------------------- Observable
\* ForEachNext walking the array from its end.
RECURSIVE ForEachNext_reversed(_, _)
ForEachNext_reversed(s, values) ==
    IF values = <<>> THEN s
    ELSE ForEachNext_reversed(
             ApplyCall(s, [op |-> "next", arg |-> values[Len(values)]]),
             SubSeq(values, 1, Len(values) - 1))

\* values.forEach((value) => observer.next(value))
RECURSIVE ForEachNext(_, _)
ForEachNext(s, values) ==
    IF values = <<>> THEN s
    ELSE ForEachNext(ApplyCall(s, [op |-> "next", arg |-> Head(values)]), Tail(values))

\* FromProducer returning without calling observer.complete().
FromProducer_noComplete(s, values) == ForEachNext(s, values)

\* The producer function built by Observable.from(values), run on observer s.
FromProducer(s, values) ==
    ApplyCall(ForEachNext(s, values), [op |-> "complete", arg |-> 0])

\* RunProducer invoking the stored producer function twice.
RunProducer_twice(ob, s) ==
    LET run(x) == LET x1 == Log(x, Ev("producer", "_subscribe", 0))
                  IN  IF ob.kind = "from"
                      THEN FromProducer(x1, ob.values)
                      ELSE RunScript(x1, ob.script)
    IN  run(run(s))

\* this._subscribe(observer): run the stored producer function.
RunProducer(ob, s) ==
    LET s1 == Log(s, Ev("producer", "_subscribe", 0))
    IN  IF ob.kind = "from"
        THEN FromProducer(s1, ob.values)
        ELSE RunScript(s1, ob.script)

\* AssignCleanup discarding the producer's return value.
AssignCleanup_dropped(s) == s

\* AssignCleanup running the cleanup action at once when the Observer has
\* already been unsubscribed.
AssignCleanup_deferred(s) ==
    IF s.threw THEN s
    ELSE LET s1 == Log([s EXCEPT !.o._unsubscribe = Cleanup],
                       Ev("assign", "_unsubscribe", 0))
         IN  IF s1.o.isUnsubscribed THEN InvokeCleanup(s1) ELSE s1

\* observer._unsubscribe = <the producer's return value>; not reached when
\* the producer threw.
AssignCleanup(s) ==
    IF s.threw THEN s
    ELSE Log([s EXCEPT !.o._unsubscribe = Cleanup], Ev("assign", "_unsubscribe", 0))

\* SubscribeBody attaching the cleanup action before the producer emits.
SubscribeBody_assignFirst(ob, handlers) ==
    RunProducer(ob, AssignCleanup(NewObserver(handlers)))

\* SubscribeBody discarding what this._subscribe(observer) returns.
SubscribeBody_unassigned(ob, handlers) ==
    RunProducer(ob, NewObserver(handlers))

\* The body of Observable.subscribe(obs) up to the return statement.
SubscribeBody(ob, handlers) ==
    AssignCleanup(RunProducer(ob, NewObserver(handlers)))

SeqsUpTo(S, n) == UNION {[1..k -> S] : k \in 0..n}

\* ---------------------------------------------------------------- actions
Init ==
    /\ observable = NoObservable
    /\ observers = <<>>
    /\ trace = <<>>
    /\ threw = <<>>
    /\ calls = <<>>
    /\ budget = [subs |-> 1, calls |-> MaxCalls, total |-> MaxCalls,
                 handlers |-> SUBSET HandlerNames]

\* The handler bundles the program with several subscriptions subscribes with.
MultiHandlers == {HandlerNames, {"next"}, {}}

\* A program that subscribes MaxSubs times to the one Observable.
InitMulti ==
    /\ observable = NoObservable
    /\ observers = <<>>
    /\ trace = <<>>
    /\ threw = <<>>
    /\ calls = <<>>
    /\ budget = [subs |-> MaxSubs, calls |-> MultiCalls, total |-> MultiCalls,
                 handlers |-> MultiHandlers]

\* Observable.from(values)
From(values) ==
    /\ observable = NoObservable
    /\ observable' = [kind |-> "from", values |-> values, script |-> <<>>]
    /\ UNCHANGED <<observers, trace, threw, calls, budget>>

\* new Observable(subscribe), for a hand-written producer whose synchronous
\* body makes the calls of script and which keeps the Observer for later.
NewObservable(script) ==
    /\ observable = NoObservable
    /\ observable' = [kind |-> "custom", values |-> <<>>, script |-> script]
    /\ UNCHANGED <<observers, trace, threw, calls, budget>>

\* Store with isUnsubscribed a static field, shared by all Observers.
Store_static(i, s) ==
    /\ observers' = [j \in DOMAIN observers |->
                        IF j = i THEN s.o
                        ELSE [observers[j] EXCEPT !.isUnsubscribed = s.o.isUnsubscribed]]
    /\ trace' = [trace EXCEPT ![i] = s.t]
    /\ threw' = [threw EXCEPT ![i] = s.threw]

\* The fields of Observer i after a call on it; no other Observer changes.
Store(i, s) ==
    /\ observers' = [observers EXCEPT ![i] = s.o]
    /\ trace' = [trace EXCEPT ![i] = s.t]
    /\ threw' = [threw EXCEPT ![i] = s.threw]

Cur(i) == [o |-> observers[i], t |-> trace[i], threw |-> threw[i]]

\* observable.subscribe(handlers): a new Observer, the producer run on it.
Subscribe(handlers) ==
    /\ observable # NoObservable
    /\ Len(observers) < budget.subs
    /\ handlers \in budget.handlers
    /\ LET s == SubscribeBody(observable, handlers)
       IN  /\ observers' = Append(observers, s.o)
           /\ trace' = Append(trace, s.t)
           /\ threw' = Append(threw, s.threw)
    /\ calls' = Append(calls, 0)
    /\ UNCHANGED <<observable, budget>>

\* A subscription whose subscribe call returned a handle.
Subscribed(i) == i \in DOMAIN observers /\ ~threw[i]

RECURSIVE Sum(_)
Sum(ns) == IF ns = <<>> THEN 0 ELSE Head(ns) + Sum(Tail(ns))

\* The main program has calls left to make on Observer i.
CanCall(i) == calls[i] < budget.calls /\ Sum(calls) < budget.total

\* A call the producer makes on the Observer after subscribe returned.
LaterCall(i, c) ==
    /\ Subscribed(i)
    /\ observable.kind = "custom"
    /\ CanCall(i)
    /\ Store(i, ApplyCall(Cur(i), c))
    /\ calls' = [calls EXCEPT ![i] = @ + 1]
    /\ UNCHANGED <<observable, budget>>

ProducerNext(i, value) == LaterCall(i, [op |-> "next", arg |-> value])

ProducerError(i, error) == LaterCall(i, [op |-> "error", arg |-> error])

ProducerComplete(i) == LaterCall(i, [op |-> "complete", arg |-> 0])

\* subscription.unsubscribe(): the handle delegates to observer.unsubscribe().
HandleUnsubscribe(i) ==
    /\ Subscribed(i)
    /\ CanCall(i)
    /\ Store(i, ApplyCall(Cur(i), [op |-> "unsubscribe", arg |-> 0]))
    /\ calls' = [calls EXCEPT ![i] = @ + 1]
    /\ UNCHANGED <<observable, budget>>

Next ==
    \/ \E values \in SeqsUpTo(Requests, MaxLen) : From(values)
    \/ \E script \in SeqsUpTo(ProducerCalls, MaxSync) : NewObservable(script)
    \/ \E handlers \in SUBSET HandlerNames : Subscribe(handlers)
    \/ \E i \in DOMAIN observers, value \in Requests : ProducerNext(i, value)
    \/ \E i \in DOMAIN observers, error \in HttpStatus : ProducerError(i, error)
    \/ \E i \in DOMAIN observers : ProducerComplete(i)
    \/ \E i \in DOMAIN observers : HandleUnsubscribe(i)

Spec == Init /\ [][Next]_vars

SpecMulti == InitMulti /\ [][Next]_vars

\* ------------------------------------------------------- trace vocabulary
IsCall(e) == e.k = "call"
IsHandler(e) == e.k = "handler"
IsCleanup(e) == e.k = "cleanup"
IsAssign(e) == e.k = "assign"
IsSet(e) == e.k = "set"
IsTerminalCall(e) == e.k = "call" /\ e.op \in {"error", "complete", "unsubscribe"}
IsErrorOrCompleteCall(e) == e.k = "call" /\ e.op \in {"error", "complete"}
IsUnsubscribeCall(e) == e.k = "call" /\ e.op = "unsubscribe"
IsTerminalHandler(e) == e.k = "handler" /\ e.op \in {"error", "complete"}

Count(t, P(_)) == Cardinality({p \in DOMAIN t : P(t[p])})

\* The position of the call during which position q of trace t was executed
\* (0 when no call was made before q).
CallOf(t, q) ==
    LET cs == {c \in 1..(q - 1) : IsCall(t[c])}
    IN  IF cs = {} THEN 0 ELSE CHOOSE c \in cs : \A d \in cs : d <= c

Obs == DOMAIN observers

\* ----------------------------------------------------------------- claims

\* C1: once unsubscribe, error or complete has been called on an Observer,
\* no later call on it invokes a handler of the subscriber: every handler
\* invocation in a trace happens during a call that no terminal call precedes.
C1_SilentAfterTermination ==
    \A i \in Obs :
        \A q \in DOMAIN trace[i] :
            IsHandler(trace[i][q]) =>
                ~\E p \in 1..(CallOf(trace[i], q) - 1) : IsTerminalCall(trace[i][p])

\* A terminal call on an Observer that has a next handler, a next call after
\* it, and an error or complete call after it.
C1_Witness ==
    \E i \in Obs :
        /\ "next" \in observers[i].handlers
        /\ \E p, c, d \in DOMAIN trace[i] :
              /\ p < c /\ p < d
              /\ IsTerminalCall(trace[i][p])
              /\ IsCall(trace[i][c]) /\ trace[i][c].op = "next"
              /\ IsErrorOrCompleteCall(trace[i][d])

\* C2 (as claimed): the cleanup action of an Observer runs at most once,
\* whatever unsubscribe, error and complete calls are made.
C2_CleanupAtMostOnce ==
    \A i \in Obs : Count(trace[i], IsCleanup) <= 1

\* The handler invocations a subscription to Observable.from(values) with
\* all three handlers is to see.
FromDeliveries(values) ==
    [j \in 1..Len(values) |-> Ev("handler", "next", values[j])]
        \o <<Ev("handler", "complete", 0)>>

\* C3: a subscription to Observable.from(values) with next, error and
\* complete handlers has seen exactly: next for each element of values in the
\* original order, then complete once, and no error.
C3_FromDeliversInOrder ==
    \A i \in Obs :
        (observable.kind = "from" /\ observers[i].handlers = HandlerNames) =>
            SelectSeq(trace[i], IsHandler) = FromDeliveries(observable.values)

\* A subscription with all handlers to from(<<2, 1>>).
C3_Witness ==
    \E i \in Obs :
        /\ observable.kind = "from"
        /\ observable.values = <<2, 1>>
        /\ observers[i].handlers = HandlerNames
        /\ Count(trace[i], IsHandler) = 3

\* C4: error and complete together invoke at most one terminal handler on an
\* Observer; an error or complete call that follows another one executes
\* nothing; and when only error and complete calls (no unsubscribe calls) are
\* made, the cleanup action runs at most once.
C4_TerminalAtMostOnce ==
    \A i \in Obs :
        LET t == trace[i] IN
        /\ Count(t, IsTerminalHandler) <= 1
        /\ \A c \in DOMAIN t :
              (IsErrorOrCompleteCall(t[c])
                  /\ \E p \in 1..(c - 1) : IsErrorOrCompleteCall(t[p]))
              => (c = Len(t) \/ t[c + 1].k \in {"call", "assign"})
        /\ Count(t, IsUnsubscribeCall) = 0 => Count(t, IsCleanup) <= 1

\* Two error/complete calls and no unsubscribe call on an Observer with both
\* terminal handlers, the first of them made when the cleanup was assigned.
C4_Witness ==
    \E i \in Obs :
        LET t == trace[i] IN
        /\ {"error", "complete"} \subseteq observers[i].handlers
        /\ Count(t, IsErrorOrCompleteCall) >= 2
        /\ Count(t, IsUnsubscribeCall) = 0
        /\ Count(t, IsTerminalHandler) = 1
        /\ Count(t, IsCleanup) = 1


\* C5 (as claimed): a terminated subscription has run the cleanup action
\* exactly once; in particular it has when subscribe returns from a producer
\* that completed or errored synchronously.
C5_CleanupOnceAtTermination ==
    \A i \in Obs :
        observers[i].isUnsubscribed => Count(trace[i], IsCleanup) = 1

\* The cleanup invocations executed in trace t no later than during the
\* first unsubscribe call.
CleanupsUpToFirstUnsubscribe(t) ==
    LET us == {u \in DOMAIN t : IsUnsubscribeCall(t[u])}
        u1 == CHOOSE u \in us : \A v \in us : u <= v
    IN  {p \in DOMAIN t : IsCleanup(t[p]) /\ CallOf(t, p) <= u1}

\* C6: for a subscription to Observable.from(values), once unsubscribe() has
\* been called on the handle, the cleanup action has run exactly once from
\* the start of the subscription to the end of the first unsubscribe() call.
C6_FirstUnsubscribeCleansOnce ==
    \A i \in Obs :
        (observable.kind = "from" /\ Count(trace[i], IsUnsubscribeCall) >= 1) =>
            Cardinality(CleanupsUpToFirstUnsubscribe(trace[i])) = 1

\* from(<<1, 2>>) subscribed with all handlers, unsubscribe() called once.
C6_Witness ==
    \E i \in Obs :
        /\ observable.kind = "from"
        /\ observable.values = <<1, 2>>
        /\ observers[i].handlers = HandlerNames
        /\ Count(trace[i], IsUnsubscribeCall) = 1
        /\ Count(trace[i], IsCleanup) = 1

\* Position c of trace t is a call made while the Observer was active.
ActiveCall(t, c) ==
    /\ IsCall(t[c])
    /\ \A p \in 1..(c - 1) : ~IsSet(t[p])

\* C7: no call throws; a next, error or complete call on an active Observer
\* invokes exactly its own handler when the capability set has it and no
\* handler when it has not; and an error or complete call on an active
\* Observer executes the unsubscribe and leaves the Observer unsubscribed.
C7_HandlersOptional ==
    \A i \in Obs :
        LET t == trace[i] IN
        /\ ~threw[i]
        /\ \A c \in DOMAIN t :
              (ActiveCall(t, c) /\ t[c].op \in HandlerNames) =>
                /\ t[c].op \in observers[i].handlers =>
                      /\ c < Len(t)
                      /\ t[c + 1] = Ev("handler", t[c].op, t[c].arg)
                /\ t[c].op \notin observers[i].handlers =>
                      \A q \in DOMAIN t : IsHandler(t[q]) => CallOf(t, q) # c
                /\ Cardinality({q \in DOMAIN t : IsHandler(t[q]) /\ CallOf(t, q) = c}) <= 1
                /\ t[c].op \in {"error", "complete"} =>
                      /\ \E q \in DOMAIN t : IsSet(t[q]) /\ CallOf(t, q) = c
                      /\ observers[i].isUnsubscribed

\* error(500) was called on an active Observer that has no error handler.
C7_Witness ==
    \E i \in Obs :
        /\ "error" \notin observers[i].handlers
        /\ ~threw[i]
        /\ observers[i].isUnsubscribed
        /\ \E c \in DOMAIN trace[i] :
              /\ ActiveCall(trace[i], c)
              /\ trace[i][c] = Ev("call", "error", HTTP_STATUS_INTERNAL_SERVER_ERROR)

\* C8: isUnsubscribed is false as long as no unsubscribe has been executed on
\* the Observer, true once one has, and no step takes it from true to false.
C8_FlagMonotonic ==
    /\ [](\A i \in Obs :
            observers[i].isUnsubscribed <=> Count(trace[i], IsSet) > 0)
    /\ [][\A i \in Obs :
            observers[i].isUnsubscribed => observers'[i].isUnsubscribed]_vars

\* An unsubscribed Observer on which unsubscribe was executed twice, the
\* cleanup action was assigned and a next call was made afterwards.
C8_Witness ==
    \E i \in Obs :
        LET t == trace[i] IN
        /\ observers[i].isUnsubscribed
        /\ Count(t, IsSet) >= 2
        /\ \E p, a, c \in DOMAIN t :
              /\ p < a /\ p < c
              /\ IsSet(t[p]) /\ IsAssign(t[a])
              /\ IsCall(t[c]) /\ t[c].op = "next"

\* C9 (as claimed): the cleanup action is assigned exactly once and no
\* handler is invoked before the assignment.
C9_AssignedBeforeEmission ==
    \A i \in Obs :
        LET t == trace[i] IN
        /\ Count(t, IsAssign) = 1
        /\ \A q \in DOMAIN t :
              IsHandler(t[q]) => \E a \in 1..(q - 1) : IsAssign(t[a])

\* The calls the synchronous body of the producer of Observable ob makes.
BodyCalls(ob) ==
    IF ob.kind = "from"
    THEN [j \in 1..Len(ob.values) |-> Ev("call", "next", ob.values[j])]
             \o <<Ev("call", "complete", 0)>>
    ELSE [j \in 1..Len(ob.script) |-> Ev("call", ob.script[j].op, ob.script[j].arg)]

\* C9 (amended): the cleanup action is assigned exactly once per subscribe
\* call, after the Observer is constructed and after the producer function
\* has run: all calls of the producer's synchronous body, with the handler
\* invocations they cause, precede the assignment.
C9_AssignedAfterProducer ==
    \A i \in Obs :
        LET t == trace[i] IN
        /\ Count(t, IsAssign) = 1
        /\ \A a \in DOMAIN t :
              IsAssign(t[a]) =>
                /\ a > 2
                /\ t[1].k = "new"
                /\ t[2].k = "producer"
                /\ SelectSeq(SubSeq(t, 1, a - 1), IsCall) = BodyCalls(observable)

\* A subscription whose subscriber saw next and complete before the cleanup
\* action was assigned.
C9_Witness ==
    \E i \in Obs :
        LET t == trace[i] IN
        \E q, r, a \in DOMAIN t :
            /\ q < r /\ r < a
            /\ IsHandler(t[q]) /\ t[q].op = "next"
            /\ IsHandler(t[r]) /\ t[r].op = "complete"
            /\ IsAssign(t[a])

IsProducerRun(e) == e.k = "producer"

\* C10: constructing the Observable touches no Observer (no handler call, no
\* state change, no cleanup), there is no Observer before the first
\* subscribe, and every subscribe call runs the producer exactly once.
C10_Lazy ==
    /\ [](\A i \in Obs : Count(trace[i], IsProducerRun) = 1)
    /\ [](observable = NoObservable => observers = <<>>)
    /\ [][observable' # observable => (observers = <<>> /\ UNCHANGED <<observers, trace, threw>>)]_vars

\* from(<<1, 2>>) constructed and not yet subscribed to.
C10_Witness ==
    /\ observable.kind = "from"
    /\ observable.values = <<1, 2>>
    /\ observers = <<>>
    /\ trace = <<>>

\* The Observers a step creates or changes (fields or trace).
Touched ==
    {i \in DOMAIN observers' :
        \/ i \notin DOMAIN observers
        \/ observers'[i] # observers[i]
        \/ trace'[i] # trace[i]}

\* C11: every subscribe call on the one Observable gets an Observer of its
\* own with the full emission run of the producer: each Observer's trace
\* starts with the run subscribe makes on a fresh Observer with its handlers,
\* and a step (a subscribe, a call, an unsubscribe) changes the flag, the
\* fields and the trace of at most one Observer.
C11_Independent ==
    /\ [](\A i \in Obs :
            LET run == SubscribeBody(observable, observers[i].handlers).t
            IN  /\ Len(trace[i]) >= Len(run)
                /\ SubSeq(trace[i], 1, Len(run)) = run
                /\ SelectSeq(run, IsCall) = BodyCalls(observable))
    /\ [][Cardinality(Touched) <= 1]_vars

\* Two subscriptions that both saw a next: one was unsubscribed and ran its
\* cleanup, the other is still active and ran none.
C11_Witness ==
    \E i, j \in Obs :
        /\ i # j
        /\ observers[i].isUnsubscribed
        /\ Count(trace[i], IsCleanup) = 1
        /\ ~observers[j].isUnsubscribed
        /\ Count(trace[j], IsCleanup) = 0
        /\ Count(trace[i], IsHandler) = 1
        /\ Count(trace[j], IsHandler) = 1

\* The position in trace t of the assignment of the cleanup action (0 when
\* it was not assigned).
AssignPos(t) ==
    LET as == {a \in DOMAIN t : IsAssign(t[a])}
    IN  IF as = {} THEN 0 ELSE CHOOSE a \in as : \A b \in as : a <= b

\* The events of trace t executed before the assignment of the cleanup action.
BeforeAssign(t) == SubSeq(t, 1, AssignPos(t) - 1)

\* This step is an unsubscribe() call on the subscription handle of Observer i
\* (after subscribe returned, unsubscribe is called through the handle only).
HandleUnsubscribeStep(i) ==
    /\ Len(trace'[i]) > Len(trace[i])
    /\ trace'[i][Len(trace[i]) + 1] = Ev("call", "unsubscribe", 0)

\* C12: when unsubscribe() is called on a subscription handle, the cleanup
\* action is already assigned on the Observer and the producer's synchronous
\* body has run in full before that assignment.
C12_HandleAfterAssignment ==
    [][\A i \in Obs :
          HandleUnsubscribeStep(i) =>
              /\ observers[i]._unsubscribe = Cleanup
              /\ AssignPos(trace[i]) > 0
              /\ SelectSeq(BeforeAssign(trace[i]), IsCall) = BodyCalls(observable)]_vars

\* unsubscribe() was called on the handle of a subscription to a producer
\* that emitted synchronously.
C12_Witness ==
    \E i \in Obs :
        LET t == trace[i] IN
        /\ calls[i] >= 1
        /\ IsUnsubscribeCall(t[Len(t) - 2])
        /\ AssignPos(t) > 0 /\ AssignPos(t) < Len(t) - 2
        /\ Count(BeforeAssign(t), IsHandler) >= 1

\* C13: nothing the producer does while it runs inside subscribe invokes the
\* cleanup action: when subscribe returns the cleanup action has run zero
\* times, an error, complete or unsubscribe call made by the producer on the
\* active Observer has terminated it all the same, and a subscription to
\* Observable.from is unsubscribed at that moment.
C13_NoCleanupInsideSubscribe ==
    \A i \in Obs :
        LET t == trace[i] IN
        /\ calls[i] = 0 => Count(t, IsCleanup) = 0
        /\ Count(BeforeAssign(t), IsCleanup) = 0
        /\ \A c \in 1..(AssignPos(t) - 1) :
              (ActiveCall(t, c) /\ IsTerminalCall(t[c])) =>
                  /\ \E q \in (c + 1)..(AssignPos(t) - 1) : IsSet(t[q]) /\ CallOf(t, q) = c
                  /\ observers[i].isUnsubscribed
        /\ (observable.kind = "from" /\ calls[i] = 0) =>
              /\ observers[i].isUnsubscribed
              /\ observers[i]._unsubscribe = Cleanup

\* subscribe on Observable.from has just returned: the Observer is
\* unsubscribed, the cleanup action is assigned and has not run.
C13_Witness ==
    \E i \in Obs :
        /\ observable.kind = "from"
        /\ observable.values # <<>>
        /\ calls[i] = 0
        /\ observers[i].isUnsubscribed
        /\ observers[i]._unsubscribe = Cleanup
        /\ Count(trace[i], IsCleanup) = 0

\* The handler invocations a subscription to Observable.from(values) sees
\* when its capability set is handlers.
FromDeliveriesTo(values, handlers) ==
    LET Has(e) == e.op \in handlers
    IN  SelectSeq(FromDeliveries(values), Has)

\* C14: for a subscription to Observable.from(values), the whole emission
\* run (every next call and the complete call, with the handler invocations
\* they cause) precedes the assignment that ends subscribe, and the calls
\* made afterwards, unsubscribe() on the handle, invoke no handler.
C14_FromRunsInsideSubscribe ==
    \A i \in Obs :
        observable.kind = "from" =>
            LET t == trace[i]
                expected == FromDeliveriesTo(observable.values, observers[i].handlers)
            IN  /\ AssignPos(t) > 0
                /\ SelectSeq(BeforeAssign(t), IsCall) = BodyCalls(observable)
                /\ SelectSeq(BeforeAssign(t), IsHandler) = expected
                /\ SelectSeq(t, IsHandler) = expected

\* from(<<1, 2>>) subscribed with all handlers, then unsubscribed twice
\* through the handle.
C14_Witness ==
    \E i \in Obs :
        /\ observable.kind = "from"
        /\ observable.values = <<1, 2>>
        /\ observers[i].handlers = HandlerNames
        /\ Count(trace[i], IsUnsubscribeCall) = 2
        /\ Count(trace[i], IsHandler) = 3

\* What the call at position c of trace t executed: the positions after c,
\* up to the next call, that are not the assignment made by subscribe.
Owned(t, c) ==
    {q \in DOMAIN t : ~IsCall(t[q]) /\ ~IsAssign(t[q]) /\ CallOf(t, q) = c}

\* This step is a next call on Observer i after subscribe returned.
NextCallStep(i) ==
    /\ Len(trace'[i]) > Len(trace[i])
    /\ trace'[i][Len(trace[i]) + 1].k = "call"
    /\ trace'[i][Len(trace[i]) + 1].op = "next"

\* C15: a next call executes nothing but one invocation of the next handler
\* with its value, and that exactly when the Observer is active and has the
\* handler: it sets no flag and runs no cleanup, and it leaves the fields of
\* the Observer (isUnsubscribed, _unsubscribe, handlers) as they were.
C15_NextChangesNothing ==
    /\ [](\A i \in Obs :
            LET t == trace[i] IN
            \A c \in DOMAIN t :
                (IsCall(t[c]) /\ t[c].op = "next") =>
                    IF ActiveCall(t, c) /\ "next" \in observers[i].handlers
                    THEN /\ Owned(t, c) = {c + 1}
                         /\ t[c + 1] = Ev("handler", "next", t[c].arg)
                    ELSE Owned(t, c) = {})
    /\ [][\A i \in Obs : NextCallStep(i) => observers'[i] = observers[i]]_vars

\* An active Observer with the cleanup action assigned got a next call that
\* was delivered; it is still active and no cleanup has run.
C15_Witness ==
    \E i \in Obs :
        LET t == trace[i] IN
        /\ Len(t) >= 2
        /\ t[Len(t) - 1].k = "call" /\ t[Len(t) - 1].op = "next"
        /\ IsHandler(t[Len(t)])
        /\ AssignPos(t) > 0 /\ AssignPos(t) < Len(t) - 1
        /\ ~observers[i].isUnsubscribed
        /\ observers[i]._unsubscribe = Cleanup
        /\ Count(t, IsCleanup) = 0

\* C16: an error or complete call on an active Observer executes, in this
\* order: the handler of the call when the capability set has it, then the
\* setting of isUnsubscribed, then the cleanup action when it was assigned
\* before the call (and none otherwise); and every cleanup invocation comes
\* right after a setting of the flag, never while the flag is false.
C16_TerminationOrder ==
    \A i \in Obs :
        LET t == trace[i] IN
        /\ \A c \in DOMAIN t :
              (ActiveCall(t, c) /\ IsErrorOrCompleteCall(t[c])) =>
                LET h == IF t[c].op \in observers[i].handlers THEN 1 ELSE 0
                    assigned == AssignPos(t) > 0 /\ AssignPos(t) < c
                IN  /\ Len(t) >= c + h + 1
                    /\ h = 1 => t[c + 1] = Ev("handler", t[c].op, t[c].arg)
                    /\ IsSet(t[c + h + 1])
                    /\ Owned(t, c) =
                          (c + 1)..(c + h + 1 + (IF assigned THEN 1 ELSE 0))
                    /\ assigned => IsCleanup(t[c + h + 2])
        /\ \A p \in DOMAIN t :
              IsCleanup(t[p]) => (p > 1 /\ IsSet(t[p - 1]))

\* error(500) on an active Observer that has an error handler and the
\* cleanup action assigned: handler, flag, cleanup.
C16_Witness ==
    \E i \in Obs :
        LET t == trace[i] IN
        \E c \in DOMAIN t :
            /\ ActiveCall(t, c)
            /\ t[c] = Ev("call", "error", HTTP_STATUS_INTERNAL_SERVER_ERROR)
            /\ AssignPos(t) > 0 /\ AssignPos(t) < c
            /\ Len(t) >= c + 3
            /\ IsHandler(t[c + 1]) /\ IsSet(t[c + 2]) /\ IsCleanup(t[c + 3])

\* C17: no handler is invoked during an unsubscribe call, and a subscription
\* that an unsubscribe call ended while it was active never sees its error
\* or complete handler invoked.
C17_UnsubscribeIsSilent ==
    \A i \in Obs :
        LET t == trace[i] IN
        /\ \A q \in DOMAIN t :
              IsHandler(t[q]) =>
                  (CallOf(t, q) > 0 /\ ~IsUnsubscribeCall(t[CallOf(t, q)]))
        /\ \A c \in DOMAIN t :
              (ActiveCall(t, c) /\ IsUnsubscribeCall(t[c])) =>
                  Count(t, IsTerminalHandler) = 0

\* An active Observer with error and complete handlers was unsubscribed
\* through the handle and got a complete call afterwards.
C17_Witness ==
    \E i \in Obs :
        LET t == trace[i] IN
        /\ {"error", "complete"} \subseteq observers[i].handlers
        /\ Count(t, IsTerminalHandler) = 0
        /\ \E c, d \in DOMAIN t :
              /\ AssignPos(t) < c /\ c < d
              /\ ActiveCall(t, c) /\ IsUnsubscribeCall(t[c])
              /\ IsCall(t[d]) /\ t[d].op = "complete"

\* C18: once the cleanup action is assigned, it has run as many times as
\* unsubscribe has been executed since the assignment: once per unsubscribe
\* call and once per error or complete call made on the active Observer.
C18_CleanupPerUnsubscribe ==
    \A i \in Obs :
        LET t == trace[i]
            a == AssignPos(t)
            after == {p \in DOMAIN t : p > a}
        IN  a > 0 =>
              /\ Count(t, IsCleanup) = Cardinality({p \in after : IsSet(t[p])})
              /\ Count(t, IsCleanup) =
                    Cardinality({c \in after : IsUnsubscribeCall(t[c])})
                    + Cardinality({c \in after :
                          ActiveCall(t, c) /\ IsErrorOrCompleteCall(t[c])})

\* The cleanup action ran twice: on a complete call on the active Observer
\* and on an unsubscribe call after it.
C18_Witness ==
    \E i \in Obs :
        LET t == trace[i] IN
        /\ Count(t, IsCleanup) = 2
        /\ \E c, d \in DOMAIN t :
              /\ AssignPos(t) < c /\ c < d
              /\ ActiveCall(t, c) /\ t[c].op = "complete"
              /\ IsUnsubscribeCall(t[d])

====
